---- MODULE Spec2Model ----
(***************************************************************************)
(* Model of countries-api.py: a batch ETL pipeline                         *)
(*   extract() -> transform(recd_data) -> load(df) -> analyze(df)          *)
(* run from the __main__ block.                                            *)
(*   Spec        one run of the script on a new data.db, over every        *)
(*               outcome of the GET                                        *)
(*   SpecReload  the script started again and again on the data.db the     *)
(*               earlier runs left                                         *)
(*   SpecShare   transform on long inputs                                  *)
(*                                                                         *)
(* Representation.                                                         *)
(*  - Python None / pandas NaN in an object column is the string None.     *)
(*  - A JSON value whose shape matters is a record with a "kind" field:    *)
(*    capital    [kind: "list" | "null" | "absent", items: Seq(STRING)]    *)
(*    currencies [kind: "dict" | "null" | "absent", entries: Seq(entry)]   *)
(*    ("absent" = the key is not in the record); a dict keeps its keys in  *)
(*    insertion order, so it is the sequence of its (key, value) entries.  *)
(*  - population_share is a decimal with 4 places, held as the integer     *)
(*    number of 1/10000 units; NaN is the integer NaN.                     *)
(*  - area, population_density and the flags_* columns take part in no     *)
(*    branch of the code and are left out of the rows.                     *)
(***************************************************************************)
EXTENDS Integers, Sequences, FiniteSets, TLC

VARIABLES
    pc,          \* position of the run in the __main__ block / inside load
    run,         \* number of the current start of the script
    fetch,       \* what the network did to the GET of this run
    recd_data,   \* value returned by extract()
    df,          \* DataFrame returned by transform(), a sequence of rows
    conn,        \* local variable conn of load(): "unbound" | "open" | "closed"
    exc,         \* exception pending in load() / that ended the run
    storageErr,  \* the storage-layer error raised inside load() in this run
    countries,   \* table countries of data.db
    currencies,  \* table currencies of data.db
    log,         \* log lines of this run, <<level, message>>
    calls,       \* functions the __main__ block has invoked in this run
    writes,      \* names of the tables to_sql has replaced in this run
    charts,      \* chart files saved in this run
    top10_pop,   \* populations of analyze's in-memory top 10
    sql_top10,   \* populations of analyze's SQL top 10
    lastOk       \* snapshot of the last load that completed without error

vars == <<pc, run, fetch, recd_data, df, conn, exc, storageErr, countries,
          currencies, log, calls, writes, charts, top10_pop, sql_top10, lastOk>>

-----------------------------------------------------------------------------
(* Bounds of the model *)

MaxRecords == 3      \* Spec: longest response body
MaxReload == 2       \* SpecReload: longest response body
MaxRuns == 2         \* SpecReload: starts of the script on the same data.db
MaxRep == 13         \* SpecShare: repetitions of each of the two records
MaxPop == 3          \* SpecShare: largest population value

(* Program constants *)

TOP_N == 10          \* .head(10) / LIMIT 10
SHARE_DECIMALS == 4  \* .round(4)

None == "<None>"
NaN == -1

Pow10(n) == IF n = 0 THEN 1 ELSE IF n = 1 THEN 10 ELSE IF n = 2 THEN 100
            ELSE IF n = 3 THEN 1000 ELSE IF n = 4 THEN 10000 ELSE 100000

\* 100 (percent), in units of 10^-SHARE_DECIMALS
Hundred == 100 * Pow10(SHARE_DECIMALS)

Abs(x) == IF x < 0 THEN -x ELSE x
Max(a, b) == IF a > b THEN a ELSE b
Min(a, b) == IF a < b THEN a ELSE b

RECURSIVE SumSeq(_)
SumSeq(s) == IF s = <<>> THEN 0 ELSE Head(s) + SumSeq(Tail(s))

-----------------------------------------------------------------------------
(* Sample data: records of the shape the endpoint returns *)

Cur(code, name, symbol) == [code |-> code, name |-> name, symbol |-> symbol]
Missing == "<missing>"

Dict(entries) == [kind |-> "dict", entries |-> entries]
NullValue == [kind |-> "null", entries |-> <<>>]
AbsentKey == [kind |-> "absent", entries |-> <<>>]
List(items) == [kind |-> "list", items |-> items]
NoList(kind) == [kind |-> kind, items |-> <<>>]

Rec(cca3, name, capital, region, subregion, population, cur) ==
    [cca3 |-> cca3, name |-> [common |-> name, official |-> name],
     capital |-> capital, region |-> region, subregion |-> subregion,
     population |-> population, currencies |-> cur]

FRA == Rec("FRA", "France", List(<<"Paris">>), "Europe", "Western Europe", 1,
           Dict(<<Cur("EUR", "Euro", "E")>>))
\* a second record carrying the same cca3 (an inconsistent source), without
\* the capital key and with an empty currency mapping
FRA2 == Rec("FRA", "France (dup)", NoList("absent"), "Europe", "Western Europe", 3,
            Dict(<<>>))
\* empty capital list, currencies null, no inhabitants
ATA == Rec("ATA", "Antarctica", List(<<>>), "Antarctic", "Unknown", 0, NullValue)
\* two capitals, two currencies; the first currency has a null name and no
\* symbol key
PSE == Rec("PSE", "Palestine", List(<<"Ramallah", "Jerusalem">>), "Asia",
           "Western Asia", 2,
           Dict(<<Cur("ILS", None, Missing), Cur("JOD", "Jordanian dinar", "JD")>>))
\* a record without the currencies key
BAD == Rec("BAD", "Malformed", List(<<"X">>), "Europe", "Unknown", 1, AbsentKey)

RawRecords == {FRA, FRA2, ATA, PSE, BAD}

Bodies == UNION {[1..n -> RawRecords] : n \in 0..MaxRecords}

-----------------------------------------------------------------------------
(* transform: lines 33-82 *)

\* json_normalize gives the frame a column for every key some record has
HasCapitalColumn(recs) == \E i \in 1..Len(recs) : recs[i].capital.kind # "absent"

\* json_normalize(recd_data, sep="_"): one row per record, in order, nested
\* name.common / name.official flattened to name_common / name_official
json_normalize(recs) ==
    [i \in 1..Len(recs) |->
        [cca3 |-> recs[i].cca3,
         name_common |-> recs[i].name.common,
         name_official |-> recs[i].name.official,
         capital |-> recs[i].capital,
         region |-> recs[i].region,
         subregion |-> recs[i].subregion,
         population |-> recs[i].population]]

\* lambda x: x[0] if isinstance(x, list) and x else None
CapitalFirst(x) == IF x.kind = "list" /\ x.items # <<>> THEN x.items[1] ELSE None

\* details.get(key): the value, None when the key is missing
DictGet(v) == IF v = Missing THEN None ELSE v

NoCurrency == [currency_code |-> None, currency_name |-> None, currency_symbol |-> None]

extract_currency(curr) ==
    IF curr.kind = "dict" /\ Len(curr.entries) > 0
    THEN LET details == curr.entries[1]
         IN  [currency_code |-> details.code,
              currency_name |-> DictGet(details.name),
              currency_symbol |-> DictGet(details.symbol)]
    ELSE NoCurrency

\* curr_list = [c['currencies'] for c in recd_data]
CurrListNonEmpty(recs) ==
    LET all == [i \in 1..Len(recs) |-> recs[i].currencies]
        IsFilled(c) == c.kind = "dict" /\ c.entries # <<>>
    IN  SelectSeq(all, IsFilled)
curr_list(recs) == [i \in 1..Len(recs) |-> recs[i].currencies]

\* currency_df = pd.DataFrame([extract_currency(c) for c in curr_list])
currency_df(recs) ==
    LET cl == curr_list(recs)
    IN  [i \in 1..Len(cl) |-> extract_currency(cl[i])]

NoRow == [cca3 |-> None, name_common |-> None, name_official |-> None,
          capital |-> None, region |-> None, subregion |-> None, population |-> NaN]

\* pd.concat([df, currency_df], axis=1): joined on the row index; an index one
\* frame lacks gets NaN in that frame's columns
Concat(a, b) ==
    [i \in 1..Max(Len(a), Len(b)) |->
        LET l == IF i <= Len(a) THEN a[i] ELSE NoRow
            r == IF i <= Len(b) THEN b[i] ELSE NoCurrency
        IN  [cca3 |-> l.cca3, name_common |-> l.name_common,
             name_official |-> l.name_official, capital |-> l.capital,
             region |-> l.region, subregion |-> l.subregion,
             population |-> l.population,
             currency_code |-> r.currency_code,
             currency_name |-> r.currency_name,
             currency_symbol |-> r.currency_symbol]]

\* .fillna('Unknown')
FillNaKeep(v) == v
FillNa(v) == IF v = None THEN "Unknown" ELSE v

\* df.loc[df['region'] == 'Antarctic', 'subregion'] = 'Antarctica'
Subregion(row) == IF row.region = "Antarctic" THEN "Antarctica" ELSE row.subregion

\* round half to even of num/den (den > 0), as numpy's round does
RoundTrunc(num, den) == num \div den
Round(num, den) ==
    LET q == num \div den
        r == num % den
    IN  IF 2 * r < den THEN q
        ELSE IF 2 * r > den THEN q + 1
        ELSE IF q % 2 = 0 THEN q ELSE q + 1

\* world_pop = df['population'].sum()
WorldPop(rows) == SumSeq([i \in 1..Len(rows) |-> rows[i].population])

\* (population / world_pop * 100).round(4); 0 / 0 is NaN
PopulationShare(p, total) ==
    IF total = 0 THEN NaN ELSE Round(p * 100 * Pow10(SHARE_DECIMALS), total)

\* KeyError at df['capital'] (line 36) or at c['currencies'] (line 64)
TransformRaises(recs) ==
    \/ ~HasCapitalColumn(recs)
    \/ \E i \in 1..Len(recs) : recs[i].currencies.kind = "absent"

TransformRows(recs) ==
    LET flat == json_normalize(recs)
        cap  == [i \in 1..Len(flat) |->
                    [flat[i] EXCEPT !.capital = CapitalFirst(flat[i].capital)]]
        cat  == Concat(cap, currency_df(recs))
        total == WorldPop(cat)
    IN  [i \in 1..Len(cat) |->
            [cca3 |-> cat[i].cca3,
             name_common |-> cat[i].name_common,
             name_official |-> cat[i].name_official,
             capital |-> FillNa(cat[i].capital),
             region |-> cat[i].region,
             subregion |-> Subregion(cat[i]),
             population |-> cat[i].population,
             currency_code |-> FillNa(cat[i].currency_code),
             currency_name |-> FillNa(cat[i].currency_name),
             currency_symbol |-> FillNa(cat[i].currency_symbol),
             population_share |-> PopulationShare(cat[i].population, total)]]

-----------------------------------------------------------------------------
(* extract: lines 19-31 *)

Statuses == {200, 304, 404, 500}

\* classes json() raises on a body that is not JSON: requests' JSONDecodeError
\* (a RequestException) in requests >= 2.27, a plain ValueError before
DecodeErrors == {"requests.JSONDecodeError", "ValueError"}

Failed(kind) == [kind |-> kind, status |-> 0, json |-> "none", data |-> <<>>]
Response(status, data) ==
    [kind |-> "response", status |-> status, json |-> "ok", data |-> data]
NotJson(status, cls) ==
    [kind |-> "response", status |-> status, json |-> cls, data |-> <<>>]
NoFetch == Failed("none")

FetchOutcomes ==
    {Failed("timeout"), Failed("connection_error")}
    \cup {Response(st, d) : st \in Statuses, d \in Bodies}
    \cup {NotJson(st, c) : st \in Statuses, c \in DecodeErrors}

\* response.raise_for_status(): HTTPError for a 4xx or a 5xx status
RaiseForStatusServerOnly(status) == 500 <= status /\ status < 600
RaiseForStatus(status) == 400 <= status /\ status < 600

\* except requests.RequestException
IsRequestException(cls) ==
    cls \in {"Timeout", "ConnectionError", "HTTPError", "requests.JSONDecodeError"}

\* the exception the try block of extract raises on this outcome, or "none"
ExtractRaises(f) ==
    IF f.kind = "timeout" THEN "Timeout"
    ELSE IF f.kind = "connection_error" THEN "ConnectionError"
    ELSE IF RaiseForStatus(f.status) THEN "HTTPError"
    ELSE IF f.json # "ok" THEN f.json
    ELSE "none"

Line(level, msg) == [level |-> level, msg |-> msg]

ExtractFrom(outcomes) ==
    /\ pc = "start"
    /\ \E f \in outcomes :
        LET e == ExtractRaises(f)
        IN  /\ fetch' = f
            /\ calls' = Append(calls, "extract")
            /\ IF e = "none"
               THEN /\ recd_data' = f.data
                    /\ log' = log \o <<Line("INFO", "Started data extraction"),
                                       Line("INFO", "Successfully fetched")>>
                    /\ pc' = "extracted"
                    /\ exc' = "none"
               ELSE IF IsRequestException(e)
               THEN /\ recd_data' = <<>>
                    /\ log' = log \o <<Line("INFO", "Started data extraction"),
                                       Line("ERROR", "Error fetching data")>>
                    /\ pc' = "extracted"
                    /\ exc' = "none"
               ELSE /\ recd_data' = <<>>
                    /\ log' = Append(log, Line("INFO", "Started data extraction"))
                    /\ pc' = "crashed"
                    /\ exc' = e
    /\ UNCHANGED <<run, df, conn, storageErr, countries, currencies, writes,
                   charts, top10_pop, sql_top10, lastOk>>

Extract == ExtractFrom(FetchOutcomes)

-----------------------------------------------------------------------------
(* __main__: lines 191-198 *)

\* if recd_data:
TruthyAlways(x) == TRUE
Truthy(x) == x # <<>>

Transform ==
    /\ pc = "extracted"
    /\ Truthy(recd_data)
    /\ calls' = Append(calls, "transform")
    /\ IF TransformRaises(recd_data)
       THEN /\ log' = Append(log, Line("INFO", "Starting data transformation"))
            /\ exc' = "KeyError"
            /\ pc' = "crashed"
            /\ df' = df
       ELSE /\ log' = log \o <<Line("INFO", "Starting data transformation"),
                               Line("INFO", "Data transformation complete")>>
            /\ exc' = "none"
            /\ pc' = "transformed"
            /\ df' = TransformRows(recd_data)
    /\ UNCHANGED <<run, fetch, recd_data, conn, storageErr, countries, currencies,
                   writes, charts, top10_pop, sql_top10, lastOk>>

Stop ==
    /\ pc = "extracted"
    /\ ~Truthy(recd_data)
    /\ log' = Append(log, Line("ERROR", "Pipeline stopped. No data extracted."))
    /\ pc' = "stopped"
    /\ UNCHANGED <<run, fetch, recd_data, df, conn, exc, storageErr, countries,
                   currencies, calls, writes, charts, top10_pop, sql_top10, lastOk>>

-----------------------------------------------------------------------------
(* load: lines 84-116 *)

Absent == [exists |-> FALSE, rows |-> <<>>]

\* df[[...]] of line 90: the columns of the countries table
CountryColumns(row) ==
    [cca3 |-> row.cca3, name_common |-> row.name_common,
     name_official |-> row.name_official, capital |-> row.capital,
     region |-> row.region, subregion |-> row.subregion,
     population |-> row.population, population_share |-> row.population_share]

\* .drop_duplicates(subset=['cca3']): a row stays unless an earlier row
\* carries its cca3
\* the part of a row that drop_duplicates compares: the subset column, or
\* the whole row when no subset is given
DupKey(row, subset) == IF subset = "cca3" THEN <<row.cca3>> ELSE <<row>>

RECURSIVE DropFrom(_, _, _)
DropFrom(rows, seen, subset) ==
    IF rows = <<>> THEN <<>>
    ELSE IF DupKey(Head(rows), subset) \in seen
         THEN DropFrom(Tail(rows), seen, subset)
         ELSE <<Head(rows)>>
              \o DropFrom(Tail(rows), seen \cup {DupKey(Head(rows), subset)}, subset)

DropDuplicatesAllColumns(rows) == DropFrom(rows, {}, "all")
drop_duplicates(rows) == DropFrom(rows, {}, "cca3")

countries_df(frame) ==
    drop_duplicates([i \in 1..Len(frame) |-> CountryColumns(frame[i])])

\* df[['currency_code','currency_name','currency_symbol','cca3']] with cca3
\* renamed to country_cca3
curr_df(frame) ==
    [i \in 1..Len(frame) |->
        [currency_code |-> frame[i].currency_code,
         currency_name |-> frame[i].currency_name,
         currency_symbol |-> frame[i].currency_symbol,
         country_cca3 |-> frame[i].cca3]]

\* frame.to_sql(name, conn, if_exists='replace', index=False)
ToSqlAppend(existing, rows) == [exists |-> TRUE, rows |-> existing.rows \o rows]
to_sql(existing, rows) == [exists |-> TRUE, rows |-> rows]

\* what a to_sql that raises may leave behind: the old table, no table (it
\* was dropped), or the new table without its rows
AfterFailedWrite(existing) == {existing, Absent, [exists |-> TRUE, rows |-> <<>>]}

\* classes a failing write raises: sqlite3's own, or the DatabaseError pandas
\* wraps a failed statement in (not a sqlite3.Error)
WriteErrors == {"sqlite3.Error", "pandas.DatabaseError"}

\* except sqlite3.Error
CatchesStorageError(cls) == cls = "sqlite3.Error"

NoError == [at |-> "none", cls |-> "none"]
ErrorAt(at, cls) == [at |-> at, cls |-> cls]

\* lines 86-87: conn = sqlite3.connect(Sqlite_DB)
LoadConnect ==
    /\ pc = "transformed"
    /\ calls' = Append(calls, "load")
    /\ log' = Append(log, Line("INFO", "Loading data into an SQLite database"))
    /\ \E ok \in BOOLEAN :
        IF ok
        THEN /\ conn' = "open"
             /\ pc' = "load_countries"
             /\ UNCHANGED <<exc, storageErr>>
        ELSE /\ conn' = conn
             /\ exc' = "sqlite3.Error"
             /\ storageErr' = ErrorAt("connect", "sqlite3.Error")
             /\ pc' = "load_except"
    /\ UNCHANGED <<run, fetch, recd_data, df, countries, currencies, writes,
                   charts, top10_pop, sql_top10, lastOk>>

\* lines 90-100
LoadWriteCountries ==
    /\ pc = "load_countries"
    /\ \/ /\ countries' = to_sql(countries, countries_df(df))
          /\ writes' = Append(writes, "countries")
          /\ pc' = "load_currencies"
          /\ UNCHANGED <<exc, storageErr>>
       \/ \E cls \in WriteErrors, left \in AfterFailedWrite(countries) :
             /\ countries' = left
             /\ writes' = writes
             /\ exc' = cls
             /\ storageErr' = ErrorAt("countries", cls)
             /\ pc' = "load_except"
    /\ UNCHANGED <<run, fetch, recd_data, df, conn, currencies, log, calls,
                   charts, top10_pop, sql_top10, lastOk>>

\* lines 103-109
LoadWriteCurrencies ==
    /\ pc = "load_currencies"
    /\ \/ /\ currencies' = to_sql(currencies, curr_df(df))
          /\ writes' = Append(writes, "currencies")
          /\ pc' = "load_finally"
          /\ UNCHANGED <<exc, storageErr>>
       \/ \E cls \in WriteErrors, left \in AfterFailedWrite(currencies) :
             /\ currencies' = left
             /\ writes' = writes
             /\ exc' = cls
             /\ storageErr' = ErrorAt("currencies", cls)
             /\ pc' = "load_except"
    /\ UNCHANGED <<run, fetch, recd_data, df, conn, countries, log, calls,
                   charts, top10_pop, sql_top10, lastOk>>

\* lines 111-112: an exception of another class stays pending
LoadExcept ==
    /\ pc = "load_except"
    /\ IF CatchesStorageError(exc)
       THEN /\ log' = Append(log, Line("ERROR", "SQLite error"))
            /\ exc' = "none"
       ELSE UNCHANGED <<log, exc>>
    /\ pc' = "load_finally"
    /\ UNCHANGED <<run, fetch, recd_data, df, conn, storageErr, countries,
                   currencies, calls, writes, charts, top10_pop, sql_top10, lastOk>>

\* the finally block runs whether or not an exception is pending
RunsFinallyOnSuccessOnly(pending) == pending = "none"
RunsFinally(pending) == TRUE

\* lines 114-116: conn.close() on a conn that connect never bound raises
\* UnboundLocalError, which replaces whatever was pending
LoadFinally ==
    /\ pc = "load_finally"
    /\ IF ~RunsFinally(exc)
       THEN /\ pc' = "crashed"
            /\ UNCHANGED <<conn, exc, log, lastOk>>
       ELSE IF conn = "unbound"
       THEN /\ exc' = "UnboundLocalError"
            /\ pc' = "crashed"
            /\ UNCHANGED <<conn, log, lastOk>>
       ELSE /\ conn' = "closed"
            /\ log' = Append(log, Line("INFO", "Database connection closed"))
            /\ exc' = exc
            /\ pc' = IF exc = "none" THEN "loaded" ELSE "crashed"
            /\ lastOk' = IF exc = "none" /\ storageErr = NoError
                         THEN [valid |-> TRUE, df |-> df, countries |-> countries,
                               currencies |-> currencies]
                         ELSE lastOk
    /\ UNCHANGED <<run, fetch, recd_data, df, storageErr, countries, currencies,
                   calls, writes, charts, top10_pop, sql_top10>>

-----------------------------------------------------------------------------
(* analyze: lines 118-189 *)

RECURSIVE InsertDesc(_, _)
InsertDesc(x, s) ==
    IF s = <<>> THEN <<x>>
    ELSE IF x > Head(s) THEN <<x>> \o s
    ELSE <<Head(s)>> \o InsertDesc(x, Tail(s))

RECURSIVE SortDesc(_)
SortDesc(s) == IF s = <<>> THEN <<>> ELSE InsertDesc(Head(s), SortDesc(Tail(s)))

\* .head(n) / LIMIT n
HeadN(s, n) == SubSeq(s, 1, Min(n, Len(s)))

Populations(rows) == [i \in 1..Len(rows) |-> rows[i].population]

\* df[[...]].sort_values(by='population', ascending=False).head(10); the
\* order of rows of equal population is the sort's choice, so the ranking is
\* kept as its population column
Top10Pop(frame) == HeadN(SortDesc(Populations(frame)), TOP_N)

\* SELECT ... FROM countries ORDER BY population DESC LIMIT 10
SqlTop10(table) == HeadN(SortDesc(Populations(table.rows)), TOP_N)

ChartFiles == {"top10_population_share.png", "population_share_by_region.png",
               "top5_currencies.png"}

\* read_sql_query on a table the file does not hold raises; nothing in
\* analyze catches it
Analyze ==
    /\ pc = "loaded"
    /\ calls' = Append(calls, "analyze")
    /\ top10_pop' = Top10Pop(df)
    /\ IF ~countries.exists
       THEN /\ exc' = "pandas.DatabaseError"
            /\ pc' = "crashed"
            /\ log' = Append(log, Line("INFO", "Starting analysis and visualization"))
            /\ UNCHANGED <<sql_top10, charts>>
       ELSE IF ~currencies.exists
       THEN /\ sql_top10' = SqlTop10(countries)
            /\ exc' = "pandas.DatabaseError"
            /\ pc' = "crashed"
            /\ log' = Append(log, Line("INFO", "Starting analysis and visualization"))
            /\ UNCHANGED charts
       ELSE /\ sql_top10' = SqlTop10(countries)
            /\ charts' = ChartFiles
            /\ exc' = exc
            /\ pc' = "done"
            /\ log' = log \o <<Line("INFO", "Starting analysis and visualization"),
                               Line("INFO", "Saved chart: top10_population_share.png"),
                               Line("INFO", "Saved chart: population_share_by_region.png"),
                               Line("INFO", "Saved chart: top5_currencies.png"),
                               Line("INFO", "Analysis complete")>>
    /\ UNCHANGED <<run, fetch, recd_data, df, conn, storageErr, countries,
                   currencies, writes, lastOk>>

-----------------------------------------------------------------------------
(* The script as a whole *)

NoSnapshot == [valid |-> FALSE, df |-> <<>>, countries |-> Absent, currencies |-> Absent]

Terminal == {"done", "stopped", "crashed"}

\* state of a process that has just started: nothing fetched, no locals
\* bound, logging configured (lines 13-17)
Fresh ==
    /\ pc = "start"
    /\ fetch = NoFetch
    /\ recd_data = <<>>
    /\ df = <<>>
    /\ conn = "unbound"
    /\ exc = "none"
    /\ storageErr = NoError
    /\ log = <<>>
    /\ calls = <<>>
    /\ writes = <<>>
    /\ charts = {}
    /\ top10_pop = <<>>
    /\ sql_top10 = <<>>

Init ==
    /\ Fresh
    /\ run = 1
    /\ countries = Absent
    /\ currencies = Absent
    /\ lastOk = NoSnapshot

\* the script is started again; data.db keeps what the earlier runs left
Restart ==
    /\ pc \in Terminal
    /\ run < MaxRuns
    /\ run' = run + 1
    /\ pc' = "start"
    /\ fetch' = NoFetch
    /\ recd_data' = <<>>
    /\ df' = <<>>
    /\ conn' = "unbound"
    /\ exc' = "none"
    /\ storageErr' = NoError
    /\ log' = <<>>
    /\ calls' = <<>>
    /\ writes' = <<>>
    /\ charts' = {}
    /\ top10_pop' = <<>>
    /\ sql_top10' = <<>>
    /\ UNCHANGED <<countries, currencies, lastOk>>

Next ==
    \/ Extract
    \/ Transform
    \/ Stop
    \/ LoadConnect
    \/ LoadWriteCountries
    \/ LoadWriteCurrencies
    \/ LoadExcept
    \/ LoadFinally
    \/ Analyze

Spec == Init /\ [][Next]_vars

\* bodies and outcomes of the GET in the runs of SpecReload
ReloadBodies == UNION {[1..n -> {FRA, FRA2, PSE}] : n \in 0..MaxReload}
ReloadOutcomes == {Failed("timeout")} \cup {Response(200, d) : d \in ReloadBodies}

ExtractReload == ExtractFrom(ReloadOutcomes)

NextReload ==
    \/ ExtractReload
    \/ Transform
    \/ Stop
    \/ LoadConnect
    \/ LoadWriteCountries
    \/ LoadWriteCurrencies
    \/ LoadExcept
    \/ LoadFinally
    \/ Analyze
    \/ Restart

SpecReload == Init /\ [][NextReload]_vars

-----------------------------------------------------------------------------
(* transform on long inputs: the state after extract() has returned a body  *)
(* of k copies of one record followed by m copies of another, and the one   *)
(* step transform takes from it.  With at most 2 * MaxRep * MaxPop < 128    *)
(* people in total no quotient population * 10^6 / total lies within 1/256  *)
(* of a rounding tie, so the double arithmetic of line 79 and the exact     *)
(* arithmetic of PopulationShare round to the same 4 decimals.              *)

ShareRec(cca3, population) ==
    Rec(cca3, cca3, List(<<"Capital">>), "Europe", "Western Europe", population,
        Dict(<<Cur("EUR", "Euro", "E")>>))

Repeat(rec, k) == [i \in 1..k |-> rec]

LongBodies ==
    {Repeat(ShareRec("AAA", a), k) \o Repeat(ShareRec("BBB", b), m) :
        a \in 0..MaxPop, b \in 0..MaxPop, k \in 1..MaxRep, m \in 0..MaxRep}

InitShare ==
    /\ pc = "extracted"
    /\ run = 1
    /\ recd_data \in LongBodies
    /\ fetch = Response(200, recd_data)
    /\ df = <<>>
    /\ conn = "unbound"
    /\ exc = "none"
    /\ storageErr = NoError
    /\ countries = Absent
    /\ currencies = Absent
    /\ log = <<Line("INFO", "Started data extraction"),
               Line("INFO", "Successfully fetched")>>
    /\ calls = <<"extract">>
    /\ writes = <<>>
    /\ charts = {}
    /\ top10_pop = <<>>
    /\ sql_top10 = <<>>
    /\ lastOk = NoSnapshot

NextShare == Transform

SpecShare == InitShare /\ [][NextShare]_vars

-----------------------------------------------------------------------------
(* Properties *)

Called(f) == \E i \in 1..Len(calls) : calls[i] = f

\* transform was invoked in this run and returned a frame
TransformReturned ==
    /\ Called("transform")
    /\ ~(pc = "crashed" /\ calls[Len(calls)] = "transform")

InLoad == pc \in {"load_countries", "load_currencies", "load_except", "load_finally"}

\* load was invoked in this run and control has left it, by return or by raise
LoadExited == Called("load") /\ ~InLoad

\* both writes of this run's load went through and nothing was raised
LoadSucceeded == storageErr = NoError /\ writes = <<"countries", "currencies">>

ShareOrZero(x) == IF x = NaN THEN 0 ELSE x

\* sum of the population_share column (NaN skipped, as pandas' sum does)
SumShares(rows) == SumSeq([i \in 1..Len(rows) |-> ShareOrZero(rows[i].population_share)])

TerminalError == Line("ERROR", "Pipeline stopped. No data extracted.")

\* C1: when extract has returned an empty sequence, the only step the run
\* takes is to log the one terminal error and stop: transform, load and
\* analyze are not invoked, neither table is touched, no chart is saved, and
\* nothing follows the stop but a new start of the script.
C1_EmptyExtractionHalts ==
    [][/\ (pc = "extracted" /\ recd_data = <<>>) =>
            /\ pc' = "stopped"
            /\ log' = Append(log, TerminalError)
            /\ UNCHANGED <<calls, writes, charts, countries, currencies, df>>
       /\ pc = "stopped" => (pc' = "start" /\ run' = run + 1)]_vars

C1_Witness ==
    /\ pc = "stopped"
    /\ run = 2
    /\ fetch.kind = "timeout"
    /\ countries.exists
    /\ calls = <<"extract">>
    /\ log[Len(log)] = TerminalError

\* C2: once control has left load, no connection is open: the connection
\* that connect returned has been closed, whether the writes went through
\* or raised; when connect itself raised there is no connection at all.
C2_ConnectionReleased ==
    /\ conn = "open" => InLoad
    /\ LoadExited =>
         IF storageErr.at = "connect" THEN conn = "unbound" ELSE conn = "closed"

C2_Witness ==
    /\ pc = "loaded"
    /\ storageErr = ErrorAt("currencies", "sqlite3.Error")
    /\ writes = <<"countries">>
    /\ conn = "closed"

\* C3: a storage-layer error (sqlite3.Error) raised while load runs, at
\* connect or at either write, is swallowed: load returns normally and the
\* run goes on to invoke analyze.
C3_StorageErrorSwallowed ==
    (LoadExited /\ storageErr.cls = "sqlite3.Error") =>
        (pc = "loaded" \/ Called("analyze"))

AfterExtract == calls = <<"extract">> /\ pc \in {"extracted", "crashed"}

ExtractFailedQuietly ==
    /\ pc = "extracted"
    /\ recd_data = <<>>
    /\ log = <<Line("INFO", "Started data extraction"),
               Line("ERROR", "Error fetching data")>>

\* C4 as stated: on a timeout, a connection error or any non-2xx status,
\* extract logs the failure and returns an empty sequence, raising nothing.
C4_AnyNon2xxFails ==
    (/\ AfterExtract
     /\ \/ fetch.kind \in {"timeout", "connection_error"}
        \/ fetch.kind = "response" /\ ~(200 <= fetch.status /\ fetch.status < 300))
    => ExtractFailedQuietly

\* C4 amended: on a timeout, a connection error or a 4xx or 5xx status,
\* extract logs the failure and returns an empty sequence, raising nothing.
C4_HttpErrorFails ==
    (/\ AfterExtract
     /\ \/ fetch.kind \in {"timeout", "connection_error"}
        \/ fetch.kind = "response" /\ 400 <= fetch.status /\ fetch.status < 600)
    => ExtractFailedQuietly

C4_Witness ==
    /\ pc = "extracted"
    /\ fetch.kind = "response"
    /\ fetch.status = 404
    /\ fetch.data # <<>>
    /\ ExtractFailedQuietly

\* C5: after a load whose writes both went through, countries holds one row
\* per distinct cca3 of the frame, that of the first row carrying it, and
\* currencies holds as many rows as the frame.
C5_DedupFirstOccurrence ==
    LoadSucceeded =>
        /\ countries.exists /\ currencies.exists
        /\ Len(countries.rows) = Cardinality({df[i].cca3 : i \in 1..Len(df)})
        /\ \A k \in 1..Len(countries.rows) :
              \E i \in 1..Len(df) :
                 /\ \A j \in 1..(i - 1) : df[j].cca3 # df[i].cca3
                 /\ countries.rows[k] = CountryColumns(df[i])
        /\ Len(currencies.rows) = Len(df)

C5_Witness ==
    /\ LoadSucceeded
    /\ Len(df) = 2
    /\ df[1].cca3 = df[2].cca3
    /\ df[1].name_common # df[2].name_common
    /\ Len(countries.rows) = 1
    /\ countries.rows[1].name_common = df[1].name_common
    /\ Len(currencies.rows) = 2

\* C6: a successful load leaves in both tables what that load alone
\* produces from its frame, whatever the tables held before; so a load of
\* the frame the previous successful load wrote leaves both tables as that
\* load left them.
C6_ReplaceSemantics ==
    LoadSucceeded =>
        /\ countries = [exists |-> TRUE, rows |-> countries_df(df)]
        /\ currencies = [exists |-> TRUE, rows |-> curr_df(df)]
        /\ (pc = "load_finally" /\ lastOk.valid /\ lastOk.df = df) =>
              (countries = lastOk.countries /\ currencies = lastOk.currencies)

C6_Witness ==
    /\ pc = "load_finally"
    /\ LoadSucceeded
    /\ run = 2
    /\ lastOk.valid
    /\ lastOk.df = df
    /\ Len(df) = 2
    /\ Len(currencies.rows) = 2

\* C7 as stated: the population_share values transform outputs sum to
\* 100.0000 within 0.001 (10 units of 0.0001), whatever the number of rows
\* and their populations (taken with a positive total, so that the shares
\* are numbers).
C7_SharesSumWithinThousandth ==
    (TransformReturned /\ WorldPop(df) > 0) =>
        Abs(SumShares(df) - Hundred) <= 10

\* C7 amended: when the total population is positive, the shares sum to
\* 100.0000 within 0.00005 per row (half a unit of 0.0001 for each row).
C7_SharesSumWithinHalfUnitPerRow ==
    (TransformReturned /\ WorldPop(df) > 0) =>
        2 * Abs(SumShares(df) - Hundred) <= Len(df)

C7_Witness ==
    /\ TransformReturned
    /\ WorldPop(df) > 0
    /\ Len(df) > 20
    /\ Abs(SumShares(df) - Hundred) > 10

NeverNull(v) == v # None

\* C8: in every row transform outputs, capital and the three currency
\* fields are non-null, and are "Unknown" when the record's capital is an
\* empty list or absent, when its currency mapping is empty or no mapping,
\* or when the first currency lacks the name or the symbol.
C8_NoNullsEscape ==
    TransformReturned =>
        \A i \in 1..Len(df) :
            /\ i <= Len(recd_data)
            /\ NeverNull(df[i].capital)
            /\ NeverNull(df[i].currency_code)
            /\ NeverNull(df[i].currency_name)
            /\ NeverNull(df[i].currency_symbol)
            /\ LET rec == recd_data[i]
                   cur == rec.currencies
               IN  /\ (rec.capital.kind # "list" \/ rec.capital.items = <<>>)
                         => df[i].capital = "Unknown"
                   /\ (cur.kind # "dict" \/ cur.entries = <<>>)
                         => /\ df[i].currency_code = "Unknown"
                            /\ df[i].currency_name = "Unknown"
                            /\ df[i].currency_symbol = "Unknown"
                   /\ (cur.kind = "dict" /\ cur.entries # <<>>)
                         => /\ cur.entries[1].name \in {Missing, None}
                                 => df[i].currency_name = "Unknown"
                            /\ cur.entries[1].symbol \in {Missing, None}
                                 => df[i].currency_symbol = "Unknown"

C8_Witness ==
    /\ TransformReturned
    /\ recd_data = <<FRA2, PSE, ATA>>
    /\ df[1].capital = "Unknown"
    /\ df[1].currency_code = "Unknown"
    /\ df[2].capital = "Ramallah"
    /\ df[2].currency_code = "ILS"
    /\ df[2].currency_name = "Unknown"
    /\ df[2].currency_symbol = "Unknown"
    /\ df[3].capital = "Unknown"
    /\ df[3].currency_code = "Unknown"

\* the currency fields the first key of a record's currency mapping gives
ExpectedCurrency(rec) ==
    IF rec.currencies.kind = "dict" /\ rec.currencies.entries # <<>>
    THEN LET first == rec.currencies.entries[1]
         IN  <<first.code,
               IF first.name \in {Missing, None} THEN "Unknown" ELSE first.name,
               IF first.symbol \in {Missing, None} THEN "Unknown" ELSE first.symbol>>
    ELSE <<"Unknown", "Unknown", "Unknown">>

\* C9: the frame transform returns has one row per input record, in input
\* order, and the currency fields of row i are those of the first key of
\* the currency mapping of record i.
C9_RowPerRecordInOrder ==
    TransformReturned =>
        /\ Len(df) = Len(recd_data)
        /\ \A i \in 1..Len(df) :
              /\ i <= Len(recd_data)
              /\ df[i].cca3 = recd_data[i].cca3
              /\ df[i].name_common = recd_data[i].name.common
              /\ df[i].population = recd_data[i].population
              /\ <<df[i].currency_code, df[i].currency_name, df[i].currency_symbol>>
                     = ExpectedCurrency(recd_data[i])

C9_Witness ==
    /\ TransformReturned
    /\ recd_data = <<ATA, PSE, FRA>>
    /\ df[1].currency_code = "Unknown"
    /\ df[2].currency_code = "ILS"
    /\ df[3].currency_code = "EUR"
    /\ df[3].currency_symbol = "E"

\* C10: after a successful load, the populations of analyze's in-memory
\* top 10 and of its SQL top 10 are the same sequence.
C10_RankingsAgree ==
    (pc = "done" /\ LoadSucceeded) => top10_pop = sql_top10

====
